---- MODULE Spec2Model ----
(***************************************************************************)
(* Model of src/app.py: the hash-based text vectoriser, the corpus cache   *)
(* built at import time, and the two JSON routes of AppHandler.do_GET      *)
(* (/api/search and /api/problems/<id>).                                   *)
(*                                                                         *)
(* Representation.                                                         *)
(*  - A Python str that is processed character by character (titles,      *)
(*    statements, tags, queries) is a sequence of one-character strings.   *)
(*  - Any other Python value (a record's "id") is written as its Python    *)
(*    literal: "'p1'" is the str 'p1', "1" the int 1, "'1'" the str '1',   *)
(*    "None" the value None, "''" the empty str.  PyStr models str().      *)
(*  - A dict is a function whose domain is its set of keys.                *)
(*  - A float vector v / norm is the record [num |-> v, den2 |-> norm^2]:  *)
(*    component i is num[i] / sqrt(den2).  A score is kept the same way,   *)
(*    num / sqrt(den2); scores are compared exactly (as real numbers), so  *)
(*    floating-point rounding is not modelled.                             *)
(***************************************************************************)
EXTENDS Integers, Sequences, FiniteSets

VARIABLES
    PROBLEMS,         \* the list loaded from data/problems.json
    PROBLEMS_BY_ID,   \* dict: str(id) -> record
    PROBLEM_VECTORS,  \* list of {"id", "vector"}
    request,          \* the request being answered: [route, q, problem_id]
    response,         \* what the handler sent: [status, payload]
    scored,           \* the handler's list `scored` before it is sorted
    calls,            \* text_to_vector / cosine_similarity calls made by the request
    vec_in,           \* argument of a direct text_to_vector call
    vec_out           \* its result

cache == <<PROBLEMS, PROBLEMS_BY_ID, PROBLEM_VECTORS>>
vars == <<PROBLEMS, PROBLEMS_BY_ID, PROBLEM_VECTORS, request, response, scored,
          calls, vec_in, vec_out>>

\* ------------------------------------------------------------------ settings
VECTOR_SIZE == 128
TOP_K == 10

\* -------------------------------------------------------------------- bounds
MaxCorpus == 2    \* longest corpus drawn from RecordPool
MaxOver == 1      \* how far a long corpus exceeds TOP_K
MaxOdd == 1       \* entries of a long corpus that differ from the rest
MaxLen == 3       \* longest text handed directly to text_to_vector

\* ------------------------------------------------------------ Python helpers
None == <<"None">>          \* the value None where a str is expected

EmptyDict == <<>>

Get(d, key, default) == IF key \in DOMAIN d THEN d[key] ELSE default

OrEmpty(text) == IF text = None THEN <<>> ELSE text

IsSpace(c) == c = " "

Lower(c) ==
    CASE c = "A" -> "a"
      [] c = "B" -> "b"
      [] OTHER -> c

RECURSIVE LStrip(_)
LStrip(s) ==
    IF s # <<>> /\ IsSpace(Head(s)) THEN LStrip(Tail(s)) ELSE s

RECURSIVE RStrip(_)
RStrip(s) ==
    IF s # <<>> /\ IsSpace(s[Len(s)]) THEN RStrip(SubSeq(s, 1, Len(s) - 1)) ELSE s

Strip(s) == RStrip(LStrip(s))

RECURSIVE Join(_, _)
Join(sep, parts) ==
    IF parts = <<>> THEN <<>>
    ELSE IF Len(parts) = 1 THEN parts[1]
    ELSE parts[1] \o sep \o Join(sep, Tail(parts))

PyStr(v) ==
    CASE v = "1" -> "'1'"
      [] v = "None" -> "'None'"
      [] OTHER -> v

\* str.strip() of a str written as its literal.
PyStrip(v) ==
    CASE v = "' p1 '" -> "'p1'"
      [] OTHER -> v

\* --------------------------------------------------------------- vectoriser
NotSpace(c) == ~IsSpace(c)

_normalize_text(text) ==
    LET lowered == [i \in 1..Len(OrEmpty(text)) |-> Lower(OrEmpty(text)[i])]
    IN  SelectSeq(lowered, NotSpace)

RECURSIVE _char_bigrams(_)
_char_bigrams(text) ==
    IF Len(text) < 2 THEN <<text>>
    ELSE IF Len(text) = 2 THEN <<SubSeq(text, 1, 2)>>
    ELSE <<SubSeq(text, 1, 2)>> \o _char_bigrams(Tail(text))

\* The first four bytes of hashlib.md5(token.encode("utf-8")).digest().
MD5Digest4(token) ==
    CASE token = <<>>         -> <<212, 29, 140, 217>>
      [] token = <<"a">>      -> <<12, 193, 117, 185>>
      [] token = <<"b">>      -> <<146, 235, 95, 254>>
      [] token = <<"c">>      -> <<74, 138, 8, 240>>
      [] token = <<"e">>      -> <<225, 103, 23, 151>>
      [] token = <<"a", "a">> -> <<65, 36, 188, 10>>
      [] token = <<"a", "b">> -> <<24, 126, 244, 67>>
      [] token = <<"a", "c">> -> <<226, 7, 84, 116>>
      [] token = <<"a", "e">> -> <<182, 187, 67, 223>>
      [] token = <<"b", "a">> -> <<7, 21, 156, 71>>
      [] token = <<"b", "b">> -> <<33, 173, 11, 216>>
      [] token = <<"b", "c">> -> <<83, 96, 175, 53>>
      [] token = <<"b", "e">> -> <<145, 9, 85, 169>>
      [] token = <<"c", "a">> -> <<84, 53, 198, 158>>
      [] token = <<"c", "b">> -> <<208, 215, 253, 182>>
      [] token = <<"c", "c">> -> <<224, 50, 58, 144>>
      [] token = <<"c", "e">> -> <<155, 83, 148, 253>>
      [] token = <<"e", "a">> -> <<91, 52, 74, 197>>
      [] token = <<"e", "b">> -> <<47, 196, 221, 170>>
      [] token = <<"e", "c">> -> <<47, 83, 230, 243>>
      [] token = <<"e", "e">> -> <<8, 164, 65, 94>>

\* int.from_bytes(bytes, "little") % m, reduced at every step (the value itself
\* needs 32 unsigned bits).
RECURSIVE FromBytesLittleMod(_, _)
FromBytesLittleMod(bytes, m) ==
    IF bytes = <<>> THEN 0
    ELSE (Head(bytes) + 256 * FromBytesLittleMod(Tail(bytes), m)) % m

_hash_to_index(token) == FromBytesLittleMod(MD5Digest4(token), VECTOR_SIZE)

\* sum(a * b for a, b in zip(vec_a, vec_b)): the products over the indices both
\* lists have; the products that are zero add nothing and are left out.
RECURSIVE SumOver(_, _, _)
SumOver(indices, vec_a, vec_b) ==
    IF indices = {} THEN 0
    ELSE LET i == CHOOSE j \in indices : TRUE
         IN  vec_a[i] * vec_b[i] + SumOver(indices \ {i}, vec_a, vec_b)

SumProducts(vec_a, vec_b) ==
    SumOver({i \in DOMAIN vec_a \cap DOMAIN vec_b : vec_a[i] * vec_b[i] # 0},
            vec_a, vec_b)

\* The loop `for token in bigrams: vec[_hash_to_index(token)] += 1.0`.
RECURSIVE Accumulate(_, _)
Accumulate(vec, bigrams) ==
    IF bigrams = <<>> THEN vec
    ELSE Accumulate([vec EXCEPT ![_hash_to_index(Head(bigrams))] = @ + 1],
                    Tail(bigrams))

\* Variant: the counts are returned without the division by the norm.
text_to_vector_unnormalized(text) ==
    [num |-> Accumulate([i \in 0..(VECTOR_SIZE - 1) |-> 0],
                        _char_bigrams(_normalize_text(text))),
     den2 |-> 1]

text_to_vector(text) ==
    LET bigrams == _char_bigrams(_normalize_text(text))
        vec == Accumulate([i \in 0..(VECTOR_SIZE - 1) |-> 0], bigrams)
        norm2 == SumProducts(vec, vec)
    IN  IF norm2 = 0 THEN [num |-> vec, den2 |-> 1]
        ELSE [num |-> vec, den2 |-> norm2]

\* Variant: sum(a * a for a, b in zip(vec_a, vec_b)).
cosine_similarity_typo(vec_a, vec_b) ==
    [num |-> SumProducts(vec_a.num, vec_a.num),
     den2 |-> vec_a.den2 * vec_b.den2]

cosine_similarity(vec_a, vec_b) ==
    [num |-> SumProducts(vec_a.num, vec_b.num),
     den2 |-> vec_a.den2 * vec_b.den2]

\* s < t for scores num / sqrt(den2) with num >= 0
ScoreLess(s, t) == s.num * s.num * t.den2 < t.num * t.num * s.den2

ScoreEq(s, t) == s.num * s.num * t.den2 = t.num * t.num * s.den2

\* ------------------------------------------------------------- corpus cache
build_problem_search_text(problem) ==
    LET title == Get(problem, "title", <<>>)
        statement == Get(problem, "statement", <<>>)
        tags == Join(<<" ">>, Get(problem, "tags", <<>>))
        concepts == Join(<<" ">>, Get(problem, "concepts", <<>>))
    IN  Strip(Join(<<" ">>, <<title, statement, tags, concepts>>))

IdKey(item) == PyStr(Get(item, "id", "''"))

\* Variant: the index is keyed by item.get("id", "") without str().
BuildProblemsByRawId(problems) ==
    LET key(item) == Get(item, "id", "''")
        keys == {key(problems[i]) : i \in DOMAIN problems}
        last(k) == CHOOSE i \in DOMAIN problems :
                      /\ key(problems[i]) = k
                      /\ \A j \in DOMAIN problems : key(problems[j]) = k => j <= i
    IN  [k \in keys |-> problems[last(k)]]

BuildProblemsById(problems) ==
    LET keys == {IdKey(problems[i]) : i \in DOMAIN problems}
        last(k) == CHOOSE i \in DOMAIN problems :
                      /\ IdKey(problems[i]) = k
                      /\ \A j \in DOMAIN problems : IdKey(problems[j]) = k => j <= i
    IN  [k \in keys |-> problems[last(k)]]

\* Variant: only the title is vectorised.
BuildProblemVectorsFromTitle(problems) ==
    [i \in DOMAIN problems |->
        [id |-> Get(problems[i], "id", "None"),
         vector |-> text_to_vector(Get(problems[i], "title", <<>>))]]

BuildProblemVectors(problems) ==
    [i \in DOMAIN problems |->
        [id |-> Get(problems[i], "id", "None"),
         vector |-> text_to_vector(build_problem_search_text(problems[i]))]]

\* ----------------------------------------------------------------- handlers
\* The default title, the str "(" + U+7121 + U+984C + ")".
Untitled == <<"(", "U+7121", "U+984C", ")">>

\* The list `scored` before it is sorted.  "pos" is not a key of the dict the
\* code builds: it records which PROBLEM_VECTORS item the loop was at, so that
\* an entry of the answer can be traced back to the corpus.
ScoredItem(query_vec, i) ==
    LET item == PROBLEM_VECTORS[i]
        problem == Get(PROBLEMS_BY_ID, PyStr(item.id), EmptyDict)
    IN  [pos |-> i,
         id |-> Get(problem, "id", "''"),
         title |-> Get(problem, "title", Untitled),
         tags |-> Get(problem, "tags", <<>>),
         score |-> cosine_similarity(query_vec, item.vector)]

\* The loop `for item in PROBLEM_VECTORS: scored.append(...)`, up to item n.
RECURSIVE ScoreLoop(_, _)
ScoreLoop(query_vec, n) ==
    IF n = 0 THEN <<>>
    ELSE Append(ScoreLoop(query_vec, n - 1), ScoredItem(query_vec, n))

Scored(query) == ScoreLoop(text_to_vector(query), Len(PROBLEM_VECTORS))

\* Variant: sorted without reverse=True (ascending, still stable).
RECURSIVE InsertByScoreAscending(_, _)
InsertByScoreAscending(sorted, x) ==
    IF sorted = <<>> THEN <<x>>
    ELSE IF ScoreLess(x.score, Head(sorted).score) THEN <<x>> \o sorted
    ELSE <<Head(sorted)>> \o InsertByScoreAscending(Tail(sorted), x)

\* Variant: a descending sort that is not stable (a later entry goes before the
\* entries it ties with).
RECURSIVE InsertByScoreBeforeTies(_, _)
InsertByScoreBeforeTies(sorted, x) ==
    IF sorted = <<>> THEN <<x>>
    ELSE IF ~ScoreLess(x.score, Head(sorted).score) THEN <<x>> \o sorted
    ELSE <<Head(sorted)>> \o InsertByScoreBeforeTies(Tail(sorted), x)

\* list.sort(key=score, reverse=True): stable, so equal scores keep their order.
RECURSIVE InsertByScore(_, _)
InsertByScore(sorted, x) ==
    IF sorted = <<>> THEN <<x>>
    ELSE IF ScoreLess(Head(sorted).score, x.score) THEN <<x>> \o sorted
    ELSE <<Head(sorted)>> \o InsertByScore(Tail(sorted), x)

RECURSIVE SortByScore(_)
SortByScore(items) ==
    IF items = <<>> THEN <<>>
    ELSE InsertByScore(SortByScore(SubSeq(items, 1, Len(items) - 1)),
                       items[Len(items)])

Min(a, b) == IF a < b THEN a ELSE b

Slice(list, k) == SubSeq(list, 1, Min(k, Len(list)))

\* Variant: the query is vectorised before the emptiness test.
SearchHandlerEager(q) ==
    LET query == Strip(q)
    IN  IF query = <<>>
        THEN [payload |-> <<>>, scored |-> <<>>, vectorize |-> 1, similarity |-> 0]
        ELSE LET list == Scored(query)
             IN  [payload |-> Slice(SortByScore(list), TOP_K),
                  scored |-> list,
                  vectorize |-> 1,
                  similarity |-> Len(PROBLEM_VECTORS)]

\* The /api/search branch of do_GET for the raw value q of the q parameter:
\* what it sends and the calls it makes.
SearchHandler(q) ==
    LET query == Strip(q)
    IN  IF query = <<>>
        THEN [payload |-> <<>>, scored |-> <<>>, vectorize |-> 0, similarity |-> 0]
        ELSE LET list == Scored(query)
             IN  [payload |-> Slice(SortByScore(list), TOP_K),
                  scored |-> list,
                  vectorize |-> 1,
                  similarity |-> Len(PROBLEM_VECTORS)]

\* The /api/problems/ branch of do_GET for the unquoted rest of the path.
DetailHandler(rest) ==
    LET problem_id == PyStrip(rest)
    IN  IF /\ problem_id \in DOMAIN PROBLEMS_BY_ID
           /\ DOMAIN PROBLEMS_BY_ID[problem_id] # {}
        THEN [status |-> "OK", payload |-> PROBLEMS_BY_ID[problem_id]]
        ELSE [status |-> "NOT_FOUND", payload |-> [error |-> "problem not found"]]

\* ------------------------------------------------------------------- inputs
RecAB    == [id |-> "'p1'", title |-> <<"a", "b">>]
RecA_B   == [id |-> "'p2'", title |-> <<"A">>, statement |-> <<"b">>]
RecBAB   == [id |-> "1", title |-> <<"b", "a">>, tags |-> <<<<"b">>>>]
RecABA   == [id |-> "'1'", title |-> <<"a", "b", "a">>, concepts |-> <<>>]
RecEB    == [id |-> "'p1'", title |-> <<"e", "b">>, tags |-> <<<<"c">>, <<"e">>>>]
RecNoId  == [title |-> <<"c", "e">>, statement |-> <<"a", "b">>]
RecBlank == [id |-> "None", statement |-> <<>>]

RecordPool == {RecAB, RecA_B, RecBAB, RecABA, RecEB, RecNoId, RecBlank}

\* Corpora longer than TOP_K: copies of RecAB with at most MaxOdd entries replaced
\* by RecABA.
LongCorpora ==
    { [i \in 1..n |-> IF i \in odd THEN RecABA ELSE RecAB] :
        n \in (TOP_K + 1)..(TOP_K + MaxOver),
        odd \in {S \in SUBSET (1..(TOP_K + MaxOver)) : Cardinality(S) <= MaxOdd} }

SeqsOf(S, lo, hi) == UNION {[1..n -> S] : n \in lo..hi}

Corpora == SeqsOf(RecordPool, 0, MaxCorpus) \cup LongCorpora

Queries ==
    { <<>>, <<" ">>, <<"a", "b">>, <<" ", "a", "b", " ">>, <<"A", " ", "b">>,
      <<"a", "b", "a">>, <<"e", "c">> }

ProblemIds == {"'p1'", "' p1 '", "'p2'", "'1'", "'None'", "''", "'zz'"}

Chars == {"a", "b", "e", "A", " "}

Texts == SeqsOf(Chars, 0, MaxLen) \cup {None}

NoRequest == [route |-> "none", q |-> <<>>, problem_id |-> "''"]

NoResponse == [status |-> "none", payload |-> <<>>]

NoCalls == [vectorize |-> 0, similarity |-> 0]

ZeroVector == [num |-> [i \in 0..(VECTOR_SIZE - 1) |-> 0], den2 |-> 1]

\* ------------------------------------------------------------ state machine
Startup(problems) ==
    /\ PROBLEMS = problems
    /\ PROBLEMS_BY_ID = BuildProblemsById(problems)
    /\ PROBLEM_VECTORS = BuildProblemVectors(problems)

Init ==
    /\ \E problems \in Corpora : Startup(problems)
    /\ request = NoRequest
    /\ response = NoResponse
    /\ scored = <<>>
    /\ calls = NoCalls
    /\ vec_in = None
    /\ vec_out = ZeroVector

\* Variant: the loop looks records up with PROBLEMS_BY_ID.setdefault(key, {}).
SearchRequestSetdefault(q) ==
    LET out == SearchHandler(q)
        looked == IF Strip(q) = <<>> THEN {}
                  ELSE {PyStr(PROBLEM_VECTORS[i].id) : i \in DOMAIN PROBLEM_VECTORS}
    IN  /\ request' = [route |-> "search", q |-> q, problem_id |-> "''"]
        /\ response' = [status |-> "OK", payload |-> out.payload]
        /\ scored' = out.scored
        /\ calls' = [vectorize |-> out.vectorize, similarity |-> out.similarity]
        /\ PROBLEMS_BY_ID' =
              [k \in DOMAIN PROBLEMS_BY_ID \cup looked |->
                  IF k \in DOMAIN PROBLEMS_BY_ID THEN PROBLEMS_BY_ID[k] ELSE EmptyDict]
        /\ UNCHANGED <<PROBLEMS, PROBLEM_VECTORS, vec_in, vec_out>>

SearchRequest(q) ==
    LET out == SearchHandler(q)
    IN  /\ request' = [route |-> "search", q |-> q, problem_id |-> "''"]
        /\ response' = [status |-> "OK", payload |-> out.payload]
        /\ scored' = out.scored
        /\ calls' = [vectorize |-> out.vectorize, similarity |-> out.similarity]
        /\ UNCHANGED <<cache, vec_in, vec_out>>

DetailRequest(problem_id) ==
    /\ request' = [route |-> "problem", q |-> <<>>, problem_id |-> problem_id]
    /\ response' = DetailHandler(problem_id)
    /\ scored' = <<>>
    /\ calls' = NoCalls
    /\ UNCHANGED <<cache, vec_in, vec_out>>

Next ==
    \/ \E q \in Queries : SearchRequest(q)
    \/ \E problem_id \in ProblemIds : DetailRequest(problem_id)

Spec == Init /\ [][Next]_vars

\* A direct call of text_to_vector, over an empty corpus: Init draws the
\* argument, Vectorize applies the function to it.
InitVec ==
    /\ Startup(<<>>)
    /\ request = NoRequest
    /\ response = NoResponse
    /\ scored = <<>>
    /\ calls = NoCalls
    /\ vec_in \in Texts
    /\ vec_out = ZeroVector

Vectorize ==
    /\ request.route = "none"
    /\ request' = [route |-> "vectorize", q |-> <<>>, problem_id |-> "''"]
    /\ vec_out' = text_to_vector(vec_in)
    /\ calls' = [vectorize |-> 1, similarity |-> 0]
    /\ UNCHANGED <<cache, response, scored, vec_in>>

NextVec == Vectorize

SpecVec == InitVec /\ [][NextVec]_vars

\* ---------------------------------------------------------------- properties
\* The state is the answer to a search whose trimmed query is not empty.
Answered == request.route = "search" /\ Strip(request.q) # <<>>

Query == Strip(request.q)

Payload == response.payload

SearchText(i) == build_problem_search_text(PROBLEMS[i])

\* The identifier of a record, as PROBLEMS_BY_ID and the answer read it.
Identifier(problem) == Get(problem, "id", "''")

IsOne(score) == score.num * score.num = score.den2

IsZero(score) == score.num = 0

Kept == {Payload[k].pos : k \in DOMAIN Payload}

Range(list) == {list[k] : k \in DOMAIN list}

Tokens(text) == Range(_char_bigrams(_normalize_text(text)))

Buckets(text) == {_hash_to_index(token) : token \in Tokens(text)}

\* C1: a search with a non-empty query returns at most min(TOP_K, len(corpus))
\* results, all entries when the corpus has fewer than TOP_K; the scores never
\* increase down the list; every id shown is the id of a corpus record.
C1_SearchResultShape ==
    Answered =>
        /\ Len(Payload) <= Min(TOP_K, Len(PROBLEMS))
        /\ Len(PROBLEMS) < TOP_K => Kept = DOMAIN PROBLEMS /\ Len(Payload) = Len(PROBLEMS)
        /\ \A k \in 1..(Len(Payload) - 1) :
              ~ScoreLess(Payload[k].score, Payload[k + 1].score)
        /\ \A k \in DOMAIN Payload :
              \E i \in DOMAIN PROBLEMS : Identifier(PROBLEMS[i]) = Payload[k].id

C1_Witness ==
    /\ Answered
    /\ Len(PROBLEMS) > TOP_K
    /\ Len(Payload) = TOP_K
    /\ ScoreLess(Payload[TOP_K].score, Payload[1].score)

\* C2, as claimed: an entry whose searchable text equals the query scores 1.0
\* and is the first result, unless another entry has the identical text.
C2_SelfFirstUnlessSameText ==
    Answered =>
        \A i \in DOMAIN PROBLEMS :
            SearchText(i) = Query =>
                /\ IsOne(scored[i].score)
                /\ \/ Payload[1].pos = i
                   \/ \E j \in DOMAIN PROBLEMS : j # i /\ SearchText(j) = SearchText(i)

\* C2, amended: an entry whose searchable text equals the query scores 1.0; the
\* first result scores 1.0 and is the earliest corpus entry that does, which is
\* that entry unless an earlier entry also scores 1.0.
C2_SelfScoreMaximal ==
    Answered =>
        \A i \in DOMAIN PROBLEMS :
            SearchText(i) = Query =>
                /\ IsOne(scored[i].score)
                /\ Payload # <<>>
                /\ IsOne(Payload[1].score)
                /\ Payload[1].pos <= i
                /\ \A j \in DOMAIN PROBLEMS :
                      IsOne(scored[j].score) => Payload[1].pos <= j

C2_Witness ==
    /\ Answered
    /\ \E i \in DOMAIN PROBLEMS :
          /\ SearchText(i) = Query
          /\ Payload[1].pos < i
          /\ SearchText(Payload[1].pos) # Query

\* C3: text_to_vector of the empty string, of a whitespace-only string and of
\* None is the all-zero vector of length VECTOR_SIZE.
C3_EmptyTextZeroVector ==
    (/\ request.route = "vectorize"
     /\ (vec_in = None \/ \A k \in DOMAIN vec_in : IsSpace(vec_in[k])))
        => /\ DOMAIN vec_out.num = 0..(VECTOR_SIZE - 1)
           /\ \A i \in DOMAIN vec_out.num : vec_out.num[i] = 0

\* C4: a query that is empty after trimming gets the empty list, and the
\* request calls neither text_to_vector nor cosine_similarity.
C4_EmptyQueryNoWork ==
    (request.route = "search" /\ Strip(request.q) = <<>>) =>
        /\ response = [status |-> "OK", payload |-> <<>>]
        /\ calls.vectorize = 0
        /\ calls.similarity = 0

C4_Witness ==
    /\ request.route = "search"
    /\ request.q = <<" ">>
    /\ Len(PROBLEMS) >= 2
    /\ response.payload = <<>>

\* C5: results with equal scores appear in corpus order, and of a group of
\* tied entries that the cut at TOP_K splits, the earliest in the corpus are kept.
C5_TiesInCorpusOrder ==
    Answered =>
        /\ \A a, b \in DOMAIN Payload :
              (a < b /\ ScoreEq(Payload[a].score, Payload[b].score))
                  => Payload[a].pos < Payload[b].pos
        /\ \A a \in DOMAIN Payload :
              \A j \in DOMAIN scored \ Kept :
                  ScoreEq(scored[j].score, Payload[a].score) => Payload[a].pos < j

C5_Witness ==
    /\ Answered
    /\ Len(Payload) = TOP_K
    /\ \E j \in DOMAIN scored \ Kept : ScoreEq(scored[j].score, Payload[TOP_K].score)
    /\ ScoreEq(Payload[TOP_K - 1].score, Payload[TOP_K].score)

C7_CacheReadOnly ==
    [][/\ PROBLEMS' = PROBLEMS
       /\ PROBLEMS_BY_ID' = PROBLEMS_BY_ID
       /\ PROBLEM_VECTORS' = PROBLEM_VECTORS
       /\ (request.route = "search" /\ request'.route = "search"
              /\ request'.q = request.q) => response' = response]_vars

C7_Witness ==
    /\ Answered
    /\ Len(Payload) >= 2
    /\ \E k \in DOMAIN Payload : Payload[k].id = "''" /\ Payload[k].title = Untitled

\* A vector of VECTOR_SIZE components, none negative, that is all-zero or has
\* Euclidean norm 1 (the squares of num[i] / sqrt(den2) sum to 1).
WellFormed(vector) ==
    /\ DOMAIN vector.num = 0..(VECTOR_SIZE - 1)
    /\ \A i \in DOMAIN vector.num : vector.num[i] >= 0
    /\ vector.den2 >= 1
    /\ \/ \A i \in DOMAIN vector.num : vector.num[i] = 0
       \/ SumProducts(vector.num, vector.num) = vector.den2

\* C8: every vector has VECTOR_SIZE components, none negative, and is all-zero or
\* the bucket counts divided by their Euclidean norm; every score is in [0, 1].
C8_UnitVectorsScoresInRange ==
    /\ \A i \in DOMAIN PROBLEM_VECTORS : WellFormed(PROBLEM_VECTORS[i].vector)
    /\ Answered => WellFormed(text_to_vector(Query))
    /\ \A k \in DOMAIN scored :
          /\ scored[k].score.num >= 0
          /\ scored[k].score.num * scored[k].score.num <= scored[k].score.den2

C8_Witness ==
    /\ Answered
    /\ \E k \in DOMAIN scored : ~IsZero(scored[k].score) /\ ~IsOne(scored[k].score)
    /\ \E k \in DOMAIN scored : IsOne(scored[k].score)

\* C9, as claimed: an entry whose text shares no bigram token with the query
\* scores 0.0; when no entry shares one, the answer is the entries in corpus order.
C9_NoSharedTokenScoreZero ==
    Answered =>
        /\ \A i \in DOMAIN PROBLEMS :
              Tokens(SearchText(i)) \cap Tokens(Query) = {} => IsZero(scored[i].score)
        /\ (\A i \in DOMAIN PROBLEMS : Tokens(SearchText(i)) \cap Tokens(Query) = {})
              => Payload = Slice(scored, TOP_K)

\* C9, amended: an entry none of whose tokens hashes to the bucket of a token of
\* the query scores 0.0; when that holds of every entry, the answer is the first
\* entries (at most TOP_K) in corpus order, all with score 0.0.
C9_NoSharedBucketScoreZero ==
    Answered =>
        /\ \A i \in DOMAIN PROBLEMS :
              Buckets(SearchText(i)) \cap Buckets(Query) = {} => IsZero(scored[i].score)
        /\ (\A i \in DOMAIN PROBLEMS : Buckets(SearchText(i)) \cap Buckets(Query) = {})
              => /\ Payload = Slice(scored, TOP_K)
                 /\ \A k \in DOMAIN Payload : IsZero(Payload[k].score)

C9_Witness ==
    /\ Answered
    /\ Len(PROBLEMS) >= 2
    /\ \A i \in DOMAIN PROBLEMS : Buckets(SearchText(i)) \cap Buckets(Query) = {}
    /\ Payload = scored

\* C10: the title and tags of every result are those of the corpus record whose
\* text gave the vector the score was computed from.
C10_FieldsOfScoredRecord ==
    Answered =>
        \A k \in DOMAIN Payload :
            /\ Payload[k].title = Get(PROBLEMS[Payload[k].pos], "title", Untitled)
            /\ Payload[k].tags = Get(PROBLEMS[Payload[k].pos], "tags", <<>>)

====
